---- MODULE Spec2Model ----
(***************************************************************************)
(* Model of the alarm clock of src/main.py: the Alarm entity (snooze,      *)
(* reset_snooze, current_time), the AlarmClock registry (add, delete,      *)
(* snooze, find) and the background loop check_alarms.                     *)
(*                                                                         *)
(* An alarm object is a heap cell keyed by its id (uuid4: a fresh value    *)
(* per construction).  AlarmClock.alarms is a sequence of ids.  A Time is  *)
(* a record [hour, minute]; Optional[Time] is a sequence of length 0 or 1. *)
(* A time string is the sequence of the pieces between its colons; a piece *)
(* says whether int() accepts it and the integer it then denotes.  What    *)
(* the last call printed or raised is the sequence out, op is the name of  *)
(* that call, and fired[id] is the number of "*** ALARM! ***" lines        *)
(* printed so far for the alarm id.  A printed line is kept as its kind    *)
(* and, for the lines about one alarm, the id of that alarm.               *)
(*                                                                         *)
(* In Spec a step is one call of the menu loop of __main__ or one pass of  *)
(* the while body of check_alarms in the one thread that clock.start()     *)
(* created.                                                                *)
(*                                                                         *)
(* In SpecConc the two threads interleave as the interpreter lets them:    *)
(* the code takes no lock.  A thread of check_alarms is a record with its  *)
(* position pc, its locals current_time (ct) and current_day (cd), the     *)
(* rest of the list its for statement iterates (it), whether that list is  *)
(* still the one self.alarms names (live) and the alarm of the iteration   *)
(* under way (cur).  fg is the position of the foreground thread inside    *)
(* Alarm.snooze, which writes snoozed_time and then snooze_count.          *)
(* SpecFair is SpecConc with the thread of check_alarms always scheduled   *)
(* again, and SpecStarts is SpecConc with further calls of start().        *)
(***************************************************************************)
EXTENDS Integers, Sequences, FiniteSets, TLC

VARIABLES alarms, heap, nextId, running, loops, fired, out, op, fg

vars == <<alarms, heap, nextId, running, loops, fired, out, op, fg>>

\* ---------------------------------------------------------------- bounds
MaxAlarms == 2
\* the alarms added in SpecConc, and the threads started in SpecStarts
MaxConcAlarms == 1
MaxLoops == 2

\* ------------------------------------------------------------- constants
MaxSnooze == 3
SnoozeMinutes == 5

\* ---------------------------------------------------------------- inputs
\* a piece of a time string: digits that int() reads as n, or other text
Num(n) == [numeric |-> TRUE, n |-> n]
Txt == [numeric |-> FALSE, n |-> 0]

\* "05:00", "23:58", "24:00", "05:60", "ab:cd", "05:xx", "0500"
TimeStrs ==
    { << Num(5), Num(0) >>, << Num(23), Num(58) >>, << Num(24), Num(0) >>,
      << Num(5), Num(60) >>, << Txt, Txt >>, << Num(5), Txt >>, << Num(500) >> }

\* the time strings that are tried with every day string; the others are
\* tried with "Monday" only
PairedTimeStrs == { << Num(5), Num(0) >>, << Txt, Txt >> }

\* day strings of the lookups, and those alarms are added with
DayStrs == { "Monday", "tuesday", "Funday" }
AddDayStrs == { "Monday", "Funday" }

\* the (time string, day string) arguments of a call, days being drawn from D
Args(D) ==
    { a \in TimeStrs \X D : a[1] \in PairedTimeStrs \/ a[2] = "Monday" }

\* the arguments of a lookup: those above and "05:05", the time an alarm of
\* 05:00 is snoozed to
LookupArgs == Args(DayStrs) \cup { << << Num(5), Num(5) >>, "Monday" >> }

\* the wall clock values a tick may read: <<hour, minute>> and the day name
ClockTimes == { <<5, 0>>, <<5, 5>>, <<23, 58>>, <<0, 3>> }
ClockDays == { "MONDAY", "TUESDAY" }

\* ------------------------------------------------------------ Time (16-29)
Time(h, m) == [hour |-> h, minute |-> m]

\* Time.from_str: split(":"), int() of the first two pieces.  The result is
\* [ok, exc, val]; a missing piece is an IndexError, a piece that is not a
\* number a ValueError, and the ranges of hour and minute are not looked at.
Time_from_str(time_str) ==
    IF ~time_str[1].numeric THEN [ok |-> FALSE, exc |-> "ValueError", val |-> Time(0, 0)]
    ELSE IF Len(time_str) < 2 THEN [ok |-> FALSE, exc |-> "IndexError", val |-> Time(0, 0)]
    ELSE IF ~time_str[2].numeric THEN [ok |-> FALSE, exc |-> "ValueError", val |-> Time(0, 0)]
    ELSE [ok |-> TRUE, exc |-> "none", val |-> Time(time_str[1].n, time_str[2].n)]

\* --------------------------------------------------------- DayOfWeek (31-45)
DayNames == { "MONDAY", "TUESDAY", "WEDNESDAY", "THURSDAY", "FRIDAY", "SATURDAY", "SUNDAY" }

\* str.upper() on the day strings the model feeds in
Upper(s) ==
    CASE s = "Monday" -> "MONDAY"
      [] s = "tuesday" -> "TUESDAY"
      [] s = "Funday" -> "FUNDAY"
      [] OTHER -> s

DayOfWeek_from_str(day_str) ==
    IF Upper(day_str) \in DayNames
    THEN [ok |-> TRUE, exc |-> "none", val |-> Upper(day_str)]
    ELSE [ok |-> FALSE, exc |-> "ValueError", val |-> "MONDAY"]


\* --------------------------------------------------------- Alarm (47-74)
None == << >>
Some(t) == << t >>

\* Alarm.__init__
NewAlarm(original_time, day) ==
    [ original_time |-> original_time,
      day |-> day,
      snooze_count |-> 0,
      active |-> TRUE,
      snoozed_time |-> None ]

\* Alarm.current_time that forgets the snooze
current_time_IgnoresSnooze(a) == a.original_time

\* Alarm.current_time: a Time object is always truthy, only None is not
current_time(a) ==
    IF a.snoozed_time # None THEN a.snoozed_time[1] ELSE a.original_time

\* datetime.replace(hour=, minute=) accepts these fields only
ValidFields(h, m) == h \in 0..23 /\ m \in 0..59

\* (now.replace(hour=h, minute=m) + timedelta(minutes=5)) as minutes since
\* the start of the proleptic calendar; today is now's date ordinal
SnoozedDt(today, h, m) == (today * 24 + h) * 60 + m + SnoozeMinutes

DtHour(dt) == (dt \div 60) % 24
DtMinute(dt) == dt % 60

\* Alarm.snooze with the hour taken without the wrap at midnight
Alarm_snooze_NoWrap(a, id, today) ==
    IF a.snooze_count < MaxSnooze
    THEN IF ~ValidFields(current_time(a).hour, current_time(a).minute)
         THEN [alarm |-> a, out |-> << [kind |-> "raise", id |-> id, exc |-> "ValueError"] >>]
         ELSE LET snoozed_dt == SnoozedDt(today, current_time(a).hour, current_time(a).minute)
              IN [alarm |-> [a EXCEPT !.snoozed_time = Some(Time(snoozed_dt \div 60, DtMinute(snoozed_dt))),
                                      !.snooze_count = a.snooze_count + 1],
                  out |-> << [kind |-> "snoozed", id |-> id, exc |-> "none"] >>]
    ELSE [alarm |-> a, out |-> << [kind |-> "limit", id |-> id, exc |-> "none"] >>]

\* Alarm.snooze with the limit test off by one (<= 3)
Alarm_snooze_OffByOne(a, id, today) ==
    IF a.snooze_count <= MaxSnooze
    THEN IF ~ValidFields(current_time(a).hour, current_time(a).minute)
         THEN [alarm |-> a, out |-> << [kind |-> "raise", id |-> id, exc |-> "ValueError"] >>]
         ELSE LET snoozed_dt == SnoozedDt(today, current_time(a).hour, current_time(a).minute)
              IN [alarm |-> [a EXCEPT !.snoozed_time = Some(Time(DtHour(snoozed_dt), DtMinute(snoozed_dt))),
                                      !.snooze_count = a.snooze_count + 1],
                  out |-> << [kind |-> "snoozed", id |-> id, exc |-> "none"] >>]
    ELSE [alarm |-> a, out |-> << [kind |-> "limit", id |-> id, exc |-> "none"] >>]

\* Alarm.snooze that starts over at the limit instead of refusing
Alarm_snooze_ResetAtLimit(a, id, today) ==
    IF a.snooze_count < MaxSnooze
    THEN IF ~ValidFields(current_time(a).hour, current_time(a).minute)
         THEN [alarm |-> a, out |-> << [kind |-> "raise", id |-> id, exc |-> "ValueError"] >>]
         ELSE LET snoozed_dt == SnoozedDt(today, current_time(a).hour, current_time(a).minute)
              IN [alarm |-> [a EXCEPT !.snoozed_time = Some(Time(DtHour(snoozed_dt), DtMinute(snoozed_dt))),
                                      !.snooze_count = a.snooze_count + 1],
                  out |-> << [kind |-> "snoozed", id |-> id, exc |-> "none"] >>]
    ELSE [alarm |-> [a EXCEPT !.snooze_count = 0, !.snoozed_time = << >>],
          out |-> << [kind |-> "limit", id |-> id, exc |-> "none"] >>]

\* Alarm.snooze that arms the alarm again
Alarm_snooze_Rearms(a, id, today) ==
    IF a.snooze_count < MaxSnooze
    THEN IF ~ValidFields(current_time(a).hour, current_time(a).minute)
         THEN [alarm |-> a, out |-> << [kind |-> "raise", id |-> id, exc |-> "ValueError"] >>]
         ELSE LET snoozed_dt == SnoozedDt(today, current_time(a).hour, current_time(a).minute)
              IN [alarm |-> [a EXCEPT !.snoozed_time = Some(Time(DtHour(snoozed_dt), DtMinute(snoozed_dt))),
                                      !.snooze_count = a.snooze_count + 1,
                                      !.active = TRUE],
                  out |-> << [kind |-> "snoozed", id |-> id, exc |-> "none"] >>]
    ELSE [alarm |-> a, out |-> << [kind |-> "limit", id |-> id, exc |-> "none"] >>]

\* Alarm.snooze that moves the day on when the time passes midnight
Alarm_snooze_AdvancesDay(a, id, today) ==
    IF a.snooze_count < MaxSnooze
    THEN IF ~ValidFields(current_time(a).hour, current_time(a).minute)
         THEN [alarm |-> a, out |-> << [kind |-> "raise", id |-> id, exc |-> "ValueError"] >>]
         ELSE LET snoozed_dt == SnoozedDt(today, current_time(a).hour, current_time(a).minute)
              IN [alarm |-> [a EXCEPT !.snoozed_time = Some(Time(DtHour(snoozed_dt), DtMinute(snoozed_dt))),
                                      !.snooze_count = a.snooze_count + 1,
                                      !.day = IF snoozed_dt \div (24 * 60) > today
                                              THEN "TUESDAY" ELSE a.day],
                  out |-> << [kind |-> "snoozed", id |-> id, exc |-> "none"] >>]
    ELSE [alarm |-> a, out |-> << [kind |-> "limit", id |-> id, exc |-> "none"] >>]

\* Alarm.snooze that forgets to count
Alarm_snooze_NoCount(a, id, today) ==
    IF a.snooze_count < MaxSnooze
    THEN IF ~ValidFields(current_time(a).hour, current_time(a).minute)
         THEN [alarm |-> a, out |-> << [kind |-> "raise", id |-> id, exc |-> "ValueError"] >>]
         ELSE LET snoozed_dt == SnoozedDt(today, current_time(a).hour, current_time(a).minute)
              IN [alarm |-> [a EXCEPT !.snoozed_time = Some(Time(DtHour(snoozed_dt), DtMinute(snoozed_dt)))],
                  out |-> << [kind |-> "snoozed", id |-> id, exc |-> "none"] >>]
    ELSE [alarm |-> a, out |-> << [kind |-> "limit", id |-> id, exc |-> "none"] >>]

\* Alarm.snooze on the alarm object a: [alarm, out]
Alarm_snooze(a, id, today) ==
    IF a.snooze_count < MaxSnooze
    THEN IF ~ValidFields(current_time(a).hour, current_time(a).minute)
         THEN [alarm |-> a, out |-> << [kind |-> "raise", id |-> id, exc |-> "ValueError"] >>]
         ELSE LET snoozed_dt == SnoozedDt(today, current_time(a).hour, current_time(a).minute)
              IN [alarm |-> [a EXCEPT !.snoozed_time = Some(Time(DtHour(snoozed_dt), DtMinute(snoozed_dt))),
                                      !.snooze_count = a.snooze_count + 1],
                  out |-> << [kind |-> "snoozed", id |-> id, exc |-> "none"] >>]
    ELSE [alarm |-> a, out |-> << [kind |-> "limit", id |-> id, exc |-> "none"] >>]

\* Alarm.reset_snooze that leaves the snoozed time behind
Alarm_reset_snooze_CountOnly(a) ==
    [a EXCEPT !.snooze_count = 0]

\* Alarm.reset_snooze
Alarm_reset_snooze(a) ==
    [a EXCEPT !.snooze_count = 0, !.snoozed_time = None]

\* ---------------------------------------------------- AlarmClock (76-140)
Msg(kind, id) == [kind |-> kind, id |-> id, exc |-> "none"]
Raise(exc) == [kind |-> "raise", id |-> 0, exc |-> exc]

NoId == 0
Ids == 1..MaxAlarms
Today == {0}

InRegistry(id) == \E i \in 1..Len(alarms) : alarms[i] = id

\* a thread of check_alarms at the position pc, outside the for statement
Thread(pc) ==
    [pc |-> pc, ct |-> Time(0, 0), cd |-> "MONDAY",
     it |-> << >>, live |-> FALSE, cur |-> NoId]

\* the foreground thread is in no call
Idle == [pc |-> "idle", id |-> NoId]

\* clock = AlarmClock(); clock.start()
Init ==
    /\ alarms = << >>
    /\ heap = [id \in {} |-> NewAlarm(Time(0, 0), "MONDAY")]
    /\ nextId = 1
    /\ running = TRUE
    /\ loops = << Thread("loop") >>
    /\ fired = [id \in {} |-> 0]
    /\ out = << Msg("started", NoId) >>
    /\ op = "start"
    /\ fg = Idle

\* AlarmClock.add_alarm
add_alarm(time_str, day_str) ==
    LET t == Time_from_str(time_str)
        d == DayOfWeek_from_str(day_str)
    IN IF ~t.ok
       THEN /\ out' = << Raise(t.exc) >>
            /\ UNCHANGED <<alarms, heap, nextId, running, loops, fired>>
       ELSE IF ~d.ok
       THEN /\ out' = << Raise(d.exc) >>
            /\ UNCHANGED <<alarms, heap, nextId, running, loops, fired>>
       ELSE /\ nextId <= MaxAlarms
            /\ heap' = [id \in DOMAIN heap \cup {nextId} |->
                            IF id = nextId THEN NewAlarm(t.val, d.val) ELSE heap[id]]
            /\ fired' = [id \in DOMAIN heap \cup {nextId} |->
                            IF id = nextId THEN 0 ELSE fired[id]]
            /\ alarms' = Append(alarms, nextId)
            /\ loops' = [th \in 1..Len(loops) |->
                            IF loops[th].live
                            THEN [loops[th] EXCEPT !.it = Append(@, nextId)]
                            ELSE loops[th]]
            /\ nextId' = nextId + 1
            /\ out' = << Msg("set", nextId) >>
            /\ UNCHANGED running

\* the alarm objects the threads ls of check_alarms refer to: the rest of
\* the list under iteration and the loop variable alarm
Held(ls) ==
    UNION { { ls[t].it[i] : i \in 1..Len(ls[t].it) } \cup ({ ls[t].cur } \ { NoId }) :
            t \in 1..Len(ls) }

\* the alarm objects something still refers to once the registry is the
\* list newAlarms; the others are gone
Referenced(newAlarms) ==
    { newAlarms[i] : i \in 1..Len(newAlarms) } \cup Held(loops)

\* AlarmClock.delete_alarm with the comparison of the filter inverted
delete_alarm_Inverted(alarm_id) ==
    LET newAlarms == SelectSeq(alarms, LAMBDA id : id = alarm_id)
    IN /\ alarms' = newAlarms
       /\ heap' = [id \in Referenced(newAlarms) |-> heap[id]]
       /\ fired' = [id \in Referenced(newAlarms) |-> fired[id]]
       /\ loops' = [t \in 1..Len(loops) |-> [loops[t] EXCEPT !.live = FALSE]]
       /\ out' = << Msg("deleted", NoId) >>
       /\ UNCHANGED <<nextId, running>>

\* AlarmClock.delete_alarm
delete_alarm(alarm_id) ==
    LET newAlarms == SelectSeq(alarms, LAMBDA id : id # alarm_id)
    IN /\ alarms' = newAlarms
       /\ heap' = [id \in Referenced(newAlarms) |-> heap[id]]
       /\ fired' = [id \in Referenced(newAlarms) |-> fired[id]]
       /\ loops' = [t \in 1..Len(loops) |-> [loops[t] EXCEPT !.live = FALSE]]
       /\ out' = << Msg("deleted", NoId) >>
       /\ UNCHANGED <<nextId, running>>

\* the first position of the registry that holds alarm_id, 0 if none
IndexOfId(alarm_id) ==
    IF InRegistry(alarm_id)
    THEN CHOOSE i \in 1..Len(alarms) :
            /\ alarms[i] = alarm_id
            /\ \A j \in 1..(i - 1) : alarms[j] # alarm_id
    ELSE 0

\* AlarmClock.snooze_alarm
snooze_alarm(alarm_id, today) ==
    IF IndexOfId(alarm_id) = 0
    THEN /\ out' = << >>
         /\ UNCHANGED <<alarms, heap, nextId, running, loops, fired>>
    ELSE LET r == Alarm_snooze(heap[alarm_id], alarm_id, today)
         IN /\ heap' = [heap EXCEPT ![alarm_id] = r.alarm]
            /\ out' = r.out
            /\ UNCHANGED <<alarms, nextId, running, loops, fired>>

\* the scan of find_alarm_by_time_day that keeps the last match
FirstMatch_Last(target_time, target_day) ==
    LET hits == { i \in 1..Len(alarms) :
                    /\ heap[alarms[i]].original_time = target_time
                    /\ heap[alarms[i]].day = target_day }
    IN IF hits = {} THEN NoId
       ELSE alarms[CHOOSE i \in hits : \A j \in hits : i >= j]

\* the scan of find_alarm_by_time_day comparing the effective time
FirstMatch_ByEffective(target_time, target_day) ==
    LET hits == { i \in 1..Len(alarms) :
                    /\ current_time(heap[alarms[i]]) = target_time
                    /\ heap[alarms[i]].day = target_day }
    IN IF hits = {} THEN NoId
       ELSE alarms[CHOOSE i \in hits : \A j \in hits : i <= j]

\* the scan of find_alarm_by_time_day: the id of the first alarm of the
\* registry with this original_time and day, NoId if there is none
FirstMatch(target_time, target_day) ==
    LET hits == { i \in 1..Len(alarms) :
                    /\ heap[alarms[i]].original_time = target_time
                    /\ heap[alarms[i]].day = target_day }
    IN IF hits = {} THEN NoId
       ELSE alarms[CHOOSE i \in hits : \A j \in hits : i <= j]

\* AlarmClock.find_alarm_by_time_day: [exc, out, alarm]; a ValueError of the
\* parse is caught and printed, an IndexError is not caught
find_alarm_by_time_day(time_str, day_str) ==
    LET t == Time_from_str(time_str)
        d == DayOfWeek_from_str(day_str)
    IN IF ~t.ok
       THEN IF t.exc = "ValueError"
            THEN [exc |-> "none", out |-> << Msg("error", NoId) >>, alarm |-> NoId]
            ELSE [exc |-> t.exc, out |-> << >>, alarm |-> NoId]
       ELSE IF ~d.ok
       THEN [exc |-> "none", out |-> << Msg("error", NoId) >>, alarm |-> NoId]
       ELSE [exc |-> "none", out |-> << >>, alarm |-> FirstMatch(t.val, d.val)]

\* AlarmClock.snooze_alarm_by_time_day
snooze_alarm_by_time_day(time_str, day_str, today) ==
    LET f == find_alarm_by_time_day(time_str, day_str)
    IN IF f.exc # "none"
       THEN /\ out' = << Raise(f.exc) >>
            /\ UNCHANGED <<alarms, heap, nextId, running, loops, fired>>
       ELSE IF f.alarm # NoId
       THEN snooze_alarm(f.alarm, today)
       ELSE /\ out' = f.out \o << Msg("nofound", NoId) >>
            /\ UNCHANGED <<alarms, heap, nextId, running, loops, fired>>

\* Alarm.reset_snooze called on an alarm object that exists
reset_snooze(id) ==
    /\ id \in DOMAIN heap
    /\ heap' = [heap EXCEPT ![id] = Alarm_reset_snooze(heap[id])]
    /\ out' = << >>
    /\ UNCHANGED <<alarms, nextId, running, loops, fired>>

\* AlarmClock.start: one more thread that runs check_alarms
start ==
    /\ loops' = Append(loops, Thread("loop"))
    /\ out' = << Msg("started", NoId) >>
    /\ UNCHANGED <<alarms, heap, nextId, running, fired>>

\* the exit option of the menu: clock.running = False
stop ==
    /\ running
    /\ running' = FALSE
    /\ out' = << >>
    /\ UNCHANGED <<alarms, heap, nextId, loops, fired>>

\* the condition of line 124 without its test of active
Matches_IgnoreActive(id, current_time_, current_day) ==
    /\ current_time(heap[id]) = current_time_
    /\ heap[id].day = current_day

\* the condition of line 124 with "the time has come" for "it is the time"
Matches_Late(id, current_time_, current_day) ==
    /\ heap[id].active
    /\ current_time(heap[id]).hour * 60 + current_time(heap[id]).minute
          <= current_time_.hour * 60 + current_time_.minute
    /\ heap[id].day = current_day

\* the condition of line 124 for the alarm with this id
Matches(id, current_time_, current_day) ==
    /\ heap[id].active
    /\ current_time(heap[id]) = current_time_
    /\ heap[id].day = current_day

\* check_alarms, one pass of the while body, sleep included, with no
\* foreground call in between: every alarm of the registry that matches the
\* clock is announced and set inactive, in registry order
check_alarms_tick(t, current_time_, current_day) ==
    /\ t \in 1..Len(loops)
    /\ loops[t].pc = "loop"
    /\ running
    /\ LET hit(id) == Matches(id, current_time_, current_day)
       IN /\ out' = [i \in 1..Len(SelectSeq(alarms, hit)) |->
                        Msg("ALARM", SelectSeq(alarms, hit)[i])]
          /\ heap' = [id \in DOMAIN heap |->
                        IF InRegistry(id) /\ hit(id)
                        THEN [heap[id] EXCEPT !.active = FALSE]
                        ELSE heap[id]]
          /\ fired' = [id \in DOMAIN heap |->
                        IF InRegistry(id) /\ hit(id) THEN fired[id] + 1 ELSE fired[id]]
    /\ UNCHANGED <<alarms, nextId, running, loops>>

\* while self.running: is false, the thread ends
check_alarms_exit(t) ==
    /\ t \in 1..Len(loops)
    /\ loops[t].pc = "loop"
    /\ ~running
    /\ loops' = [loops EXCEPT ![t].pc = "done"]
    /\ out' = << >>
    /\ UNCHANGED <<alarms, heap, nextId, running, fired>>

IdArgs == 0..MaxAlarms

\* the calls of the menu loop, which ends with the exit option (running is
\* False from then on), and the steps of the loop thread
AddAlarm ==
    /\ fg = Idle
    /\ running
    /\ \E a \in Args(AddDayStrs) : add_alarm(a[1], a[2])
    /\ op' = "add_alarm"
    /\ UNCHANGED fg
DeleteAlarm ==
    /\ fg = Idle
    /\ running
    /\ \E id \in IdArgs : delete_alarm(id)
    /\ op' = "delete_alarm"
    /\ UNCHANGED fg
SnoozeAlarm ==
    /\ fg = Idle
    /\ running
    /\ \E id \in IdArgs, today \in Today : snooze_alarm(id, today)
    /\ op' = "snooze_alarm"
    /\ UNCHANGED fg
SnoozeAlarmByTimeDay ==
    /\ fg = Idle
    /\ running
    /\ \E a \in LookupArgs, today \in Today :
          snooze_alarm_by_time_day(a[1], a[2], today)
    /\ op' = "snooze_alarm_by_time_day"
    /\ UNCHANGED fg
ResetSnooze ==
    /\ fg = Idle
    /\ running
    /\ \E id \in Ids : reset_snooze(id)
    /\ op' = "reset_snooze"
    /\ UNCHANGED fg
Stop ==
    /\ fg = Idle
    /\ stop
    /\ op' = "stop"
    /\ UNCHANGED fg
Tick ==
    /\ \E t \in 1..Len(loops), ct \in ClockTimes, current_day \in ClockDays :
          check_alarms_tick(t, Time(ct[1], ct[2]), current_day)
    /\ op' = "check_alarms"
    /\ UNCHANGED fg
LoopExit ==
    /\ \E t \in 1..Len(loops) : check_alarms_exit(t)
    /\ op' = "check_alarms_exit"
    /\ UNCHANGED fg

Next ==
    \/ AddAlarm
    \/ DeleteAlarm
    \/ SnoozeAlarm
    \/ SnoozeAlarmByTimeDay
    \/ ResetSnooze
    \/ Stop
    \/ Tick
    \/ LoopExit

Spec == Init /\ [][Next]_vars

\* ------------------------------------------- the threads, step by step
\* what the heap and the ALARM counts are once the threads are newLoops and
\* the alarm objects are newHeap: a cell nothing refers to is gone
Collect(newLoops, newHeap, newFired) ==
    LET keep == { alarms[i] : i \in 1..Len(alarms) } \cup Held(newLoops)
    IN /\ heap' = [id \in keep |-> newHeap[id]]
       /\ fired' = [id \in keep |-> newFired[id]]

\* check_alarms that starts a pass whatever running is
check_alarms_begin_IgnoresRunning(t, current_time_, current_day) ==
    /\ t \in 1..Len(loops)
    /\ loops[t].pc = "loop"
    /\ loops' = [loops EXCEPT ![t] =
                    [pc |-> "scan", ct |-> current_time_, cd |-> current_day,
                     it |-> alarms, live |-> TRUE, cur |-> NoId]]
    /\ out' = << >>
    /\ UNCHANGED <<alarms, heap, nextId, running, fired>>

\* check_alarms, lines 119-123: the test of running, the read of the clock
\* and the start of the for statement over the list self.alarms names now
check_alarms_begin(t, current_time_, current_day) ==
    /\ t \in 1..Len(loops)
    /\ loops[t].pc = "loop"
    /\ running
    /\ loops' = [loops EXCEPT ![t] =
                    [pc |-> "scan", ct |-> current_time_, cd |-> current_day,
                     it |-> alarms, live |-> TRUE, cur |-> NoId]]
    /\ out' = << >>
    /\ UNCHANGED <<alarms, heap, nextId, running, fired>>

\* the for statement takes the next alarm of its list and evaluates the
\* condition of line 124 on it, or finds the list at its end, and then the
\* thread sleeps (line 127) and is back at the while
check_alarms_next(t) ==
    /\ t \in 1..Len(loops)
    /\ loops[t].pc = "scan"
    /\ LET newLoops ==
              IF loops[t].it = << >>
              THEN [loops EXCEPT ![t] = Thread("loop")]
              ELSE IF Matches(Head(loops[t].it), loops[t].ct, loops[t].cd)
              THEN [loops EXCEPT ![t].pc = "fire",
                                 ![t].it = Tail(@),
                                 ![t].cur = Head(loops[t].it)]
              ELSE [loops EXCEPT ![t].it = Tail(@)]
       IN /\ loops' = newLoops
          /\ Collect(newLoops, heap, fired)
    /\ out' = << >>
    /\ UNCHANGED <<alarms, nextId, running>>

\* lines 125-126: the ALARM line, then alarm.active = False
check_alarms_fire(t) ==
    /\ t \in 1..Len(loops)
    /\ loops[t].pc = "fire"
    /\ LET alarm == loops[t].cur
           newLoops == [loops EXCEPT ![t].pc = "scan", ![t].cur = NoId]
       IN /\ loops' = newLoops
          /\ out' = << Msg("ALARM", alarm) >>
          /\ Collect(newLoops,
                     [heap EXCEPT ![alarm].active = FALSE],
                     [fired EXCEPT ![alarm] = @ + 1])
    /\ UNCHANGED <<alarms, nextId, running>>

\* AlarmClock.snooze_alarm up to line 67 of Alarm.snooze: the test of
\* snooze_count, the new time, the write of snoozed_time; a call that
\* refuses or raises writes nothing and is over
snooze_alarm_begin(alarm_id, today) ==
    /\ fg = Idle
    /\ IF IndexOfId(alarm_id) = 0
       THEN /\ out' = << >>
            /\ UNCHANGED <<heap, fg>>
       ELSE LET r == Alarm_snooze(heap[alarm_id], alarm_id, today)
            IN IF r.alarm = heap[alarm_id]
               THEN /\ out' = r.out
                    /\ UNCHANGED <<heap, fg>>
               ELSE /\ heap' = [heap EXCEPT ![alarm_id].snoozed_time = r.alarm.snoozed_time]
                    /\ fg' = [pc |-> "snooze", id |-> alarm_id]
                    /\ out' = << >>
    /\ UNCHANGED <<alarms, nextId, running, loops, fired>>

\* lines 68-69 of Alarm.snooze: snooze_count += 1 and the "snoozed to" line
snooze_alarm_end ==
    /\ fg.pc = "snooze"
    /\ heap' = [heap EXCEPT ![fg.id].snooze_count = @ + 1]
    /\ out' = << Msg("snoozed", fg.id) >>
    /\ fg' = Idle
    /\ UNCHANGED <<alarms, nextId, running, loops, fired>>

\* the inputs of SpecConc
ConcAddArgs == { << << Num(5), Num(0) >>, "Monday" >> }
ConcClockTimes == { <<5, 0>>, <<5, 5>> }
ConcClockDays == { "MONDAY" }

ConcAddAlarm ==
    /\ fg = Idle
    /\ running
    /\ nextId <= MaxConcAlarms
    /\ \E a \in ConcAddArgs : add_alarm(a[1], a[2])
    /\ op' = "add_alarm"
    /\ UNCHANGED fg
ConcDeleteAlarm ==
    /\ fg = Idle
    /\ running
    /\ \E id \in Ids : InRegistry(id) /\ delete_alarm(id)
    /\ op' = "delete_alarm"
    /\ UNCHANGED fg
ConcSnoozeBegin ==
    /\ running
    /\ \E id \in Ids, today \in Today : InRegistry(id) /\ snooze_alarm_begin(id, today)
    /\ op' = "snooze_alarm"
ConcSnoozeEnd ==
    /\ snooze_alarm_end
    /\ op' = "snooze_alarm"
LoopBegin ==
    /\ \E t \in 1..Len(loops), ct \in ConcClockTimes, current_day \in ConcClockDays :
          check_alarms_begin(t, Time(ct[1], ct[2]), current_day)
    /\ op' = "check_alarms"
    /\ UNCHANGED fg
LoopNext ==
    /\ \E t \in 1..Len(loops) : check_alarms_next(t)
    /\ op' = "check_alarms"
    /\ UNCHANGED fg
LoopFire ==
    /\ \E t \in 1..Len(loops) : check_alarms_fire(t)
    /\ op' = "check_alarms"
    /\ UNCHANGED fg
StartAgain ==
    /\ fg = Idle
    /\ running
    /\ Len(loops) < MaxLoops
    /\ start
    /\ op' = "start"
    /\ UNCHANGED fg

LoopStep == LoopBegin \/ LoopNext \/ LoopFire \/ LoopExit

NextConc ==
    \/ ConcAddAlarm
    \/ ConcDeleteAlarm
    \/ ConcSnoozeBegin
    \/ ConcSnoozeEnd
    \/ Stop
    \/ LoopBegin
    \/ LoopNext
    \/ LoopFire
    \/ LoopExit

SpecConc == Init /\ [][NextConc]_vars

\* the thread of check_alarms is scheduled again and again, and its sleep
\* returns
SpecFair == SpecConc /\ WF_vars(LoopStep)

NextStarts == NextConc \/ StartAgain

SpecStarts == Init /\ [][NextStarts]_vars

\* ------------------------------------------------------------ properties
Registered == { alarms[i] : i \in 1..Len(alarms) }

Minutes(t) == t.hour * 60 + t.minute

Effective(id) == current_time(heap[id])

\* the step is a snooze_alarm(id), called directly or by time and day
SnoozeOf(id) == \E today \in Today : snooze_alarm(id, today)

\* C1: a snooze of a registered alarm with a valid time and fewer than three
\* snoozes moves its effective time to (effective time + 5 minutes) modulo
\* 24 hours and adds exactly 1 to snooze_count: 05:00 -> 05:05 -> 05:10 ->
\* 05:15, and 23:58 -> 00:03.
C1_SnoozeAddsFiveMinutes ==
    [][ \A id \in Registered :
          ( /\ SnoozeOf(id)
            /\ ValidFields(heap[id].original_time.hour, heap[id].original_time.minute)
            /\ heap[id].snooze_count < 3 )
          => /\ Minutes(current_time(heap'[id])) = (Minutes(Effective(id)) + 5) % (24 * 60)
             /\ current_time(heap'[id]).hour \in 0..23
             /\ current_time(heap'[id]).minute \in 0..59
             /\ heap'[id].snooze_count = heap[id].snooze_count + 1
             /\ (Effective(id) = Time(5, 0) => current_time(heap'[id]) = Time(5, 5))
             /\ (Effective(id) = Time(5, 5) => current_time(heap'[id]) = Time(5, 10))
             /\ (Effective(id) = Time(5, 10) => current_time(heap'[id]) = Time(5, 15))
             /\ (Effective(id) = Time(23, 58) => current_time(heap'[id]) = Time(0, 3))
      ]_vars

C1_Witness ==
    /\ op \in {"snooze_alarm", "snooze_alarm_by_time_day"}
    /\ \E a \in DOMAIN heap, b \in DOMAIN heap :
          /\ out = << Msg("snoozed", a) >>
          /\ heap[a].original_time = Time(23, 58)
          /\ heap[a].snooze_count = 1
          /\ heap[a].snoozed_time = Some(Time(0, 3))
          /\ heap[b].original_time = Time(5, 0)
          /\ heap[b].snooze_count = 3
          /\ heap[b].snoozed_time = Some(Time(5, 15))

\* C2: in every reachable state every alarm has 0 <= snooze_count <= 3.
C2_SnoozeCountInRange ==
    \A id \in DOMAIN heap : heap[id].snooze_count \in 0..3

C2_Witness ==
    /\ op = "snooze_alarm"
    /\ \E id \in Registered :
          /\ heap[id].snooze_count = 3
          /\ out = << Msg("limit", id) >>

\* C3: a snooze of an alarm whose snooze_count is already 3 changes neither
\* the alarm (snooze_count, snoozed_time, effective time, active) nor the
\* registry, and prints the "already been snoozed 3 times" line and nothing
\* else.
C3_SnoozeAtLimitChangesNothing ==
    [][ \A id \in Registered :
          (SnoozeOf(id) /\ heap[id].snooze_count = 3)
          => /\ heap' = heap
             /\ alarms' = alarms
             /\ fired' = fired
             /\ running' = running
             /\ out' = << Msg("limit", id) >>
      ]_vars

C3_Witness ==
    /\ op = "snooze_alarm_by_time_day"
    /\ \E id \in Registered :
          /\ heap[id].snooze_count = 3
          /\ heap[id].snoozed_time = Some(Time(5, 15))
          /\ out = << Msg("limit", id) >>

\* the number of ALARM lines for the alarm id among the lines o
AlarmLines(o, id) == Cardinality({ i \in 1..Len(o) : o[i] = Msg("ALARM", id) })

\* the step is a tick of the loop that read the time ct and the day cd
TickAt(ct, cd) ==
    /\ op' = "check_alarms"
    /\ \E t \in 1..Len(loops) : check_alarms_tick(t, ct, cd)

ClockTimeSet == { Time(ct[1], ct[2]) : ct \in ClockTimes }

\* C4: a tick whose time and day equal an active alarm's effective time and
\* day prints exactly one ALARM line for it and sets active to false; a
\* tick prints nothing for an alarm that is not active, so with the single
\* background loop each alarm fires at most once.
C4_FiresOnceAndNeverAgain ==
    /\ [](\A id \in DOMAIN heap :
            /\ fired[id] <= 1
            /\ (fired[id] = 1 => ~heap[id].active))
    /\ [][ \A ct \in ClockTimeSet, cd \in ClockDays :
             TickAt(ct, cd) =>
               \A id \in Registered :
                  /\ (heap[id].active /\ Effective(id) = ct /\ heap[id].day = cd)
                     => /\ AlarmLines(out', id) = 1
                        /\ fired'[id] = fired[id] + 1
                        /\ ~heap'[id].active
                  /\ ~heap[id].active
                     => /\ AlarmLines(out', id) = 0
                        /\ fired'[id] = fired[id]
                        /\ ~heap'[id].active
         ]_vars

C4_Witness ==
    /\ op = "check_alarms"
    /\ \E id \in Registered :
          /\ out = << Msg("ALARM", id) >>
          /\ fired[id] = 1
          /\ heap[id].original_time = Time(5, 0)
          /\ heap[id].snooze_count = 0
          /\ ~heap[id].active

\* C5: after a successful snooze of a registered alarm, whether or not the
\* alarm has fired before, a later tick at its new effective time and day
\* prints an ALARM line for it; here the tick is the step right after the
\* snooze.
C5_SnoozedAlarmFiresAtNewTime ==
    [][ \A ct \in ClockTimeSet, cd \in ClockDays :
          TickAt(ct, cd) =>
            \A id \in Registered :
               ( /\ op \in {"snooze_alarm", "snooze_alarm_by_time_day"}
                 /\ out = << Msg("snoozed", id) >>
                 /\ heap[id].snoozed_time = Some(ct)
                 /\ heap[id].day = cd )
               => /\ AlarmLines(out', id) = 1
                  /\ fired'[id] = fired[id] + 1
      ]_vars

\* C6: for an active alarm snoozed once before it has fired, the tick at
\* its original time and day prints nothing for it and leaves it active, and
\* the tick at its snoozed time and day fires it: one ALARM line, inactive.
C6_SnoozedOnceFiresAtSnoozedTimeOnly ==
    [][ \A ct \in ClockTimeSet, cd \in ClockDays :
          TickAt(ct, cd) =>
            \A id \in Registered :
               ( /\ heap[id].active
                 /\ heap[id].snooze_count = 1
                 /\ heap[id].snoozed_time # None
                 /\ fired[id] = 0
                 /\ heap[id].day = cd )
               => /\ ct = heap[id].original_time
                     => /\ heap'[id].active
                        /\ fired'[id] = 0
                        /\ AlarmLines(out', id) = 0
                  /\ ct = heap[id].snoozed_time[1]
                     => /\ ~heap'[id].active
                        /\ fired'[id] = 1
                        /\ AlarmLines(out', id) = 1
      ]_vars

C6_Witness ==
    /\ op = "check_alarms"
    /\ \E id \in Registered :
          /\ out = << Msg("ALARM", id) >>
          /\ heap[id].original_time = Time(5, 0)
          /\ heap[id].snooze_count = 1
          /\ heap[id].snoozed_time = Some(Time(5, 5))
          /\ fired[id] = 1
          /\ ~heap[id].active

\* the time and day strings that parse, and what they parse to
Parses(time_str, day_str) ==
    Time_from_str(time_str).ok /\ DayOfWeek_from_str(day_str).ok

\* the time strings whose hour and minute are in range
ValidTimeStr(time_str) ==
    /\ Time_from_str(time_str).ok
    /\ Time_from_str(time_str).val.hour \in 0..23
    /\ Time_from_str(time_str).val.minute \in 0..59

AddOf(time_str, day_str) == op' = "add_alarm" /\ add_alarm(time_str, day_str)

\* C7 as claimed: in any registry state, add_alarm(time, day) followed by
\* find_alarm_by_time_day(time, day) returns an alarm with that scheduled
\* time and day and with snooze_count 0.
C7_AddThenFindHasCountZero ==
    [][ \A time_str \in TimeStrs, day_str \in AddDayStrs :
          (AddOf(time_str, day_str) /\ ValidTimeStr(time_str) /\ Parses(time_str, day_str))
          => LET f == find_alarm_by_time_day(time_str, day_str)'
             IN /\ f.exc = "none"
                /\ f.alarm # NoId
                /\ heap'[f.alarm].original_time = Time_from_str(time_str).val
                /\ heap'[f.alarm].day = DayOfWeek_from_str(day_str).val
                /\ heap'[f.alarm].snooze_count = 0
      ]_vars

\* C7 amended: add_alarm(time, day) followed by find_alarm_by_time_day(time,
\* day) returns the first registered alarm with that scheduled time and
\* day: the alarm just added, with snooze_count 0, when no alarm with that
\* time and day was registered before the add, and otherwise the earlier
\* one with its snooze_count as it was.
C7_AddThenFindReturnsFirst ==
    [][ \A time_str \in TimeStrs, day_str \in AddDayStrs :
          (AddOf(time_str, day_str) /\ ValidTimeStr(time_str) /\ Parses(time_str, day_str))
          => LET f == find_alarm_by_time_day(time_str, day_str)'
                 before == find_alarm_by_time_day(time_str, day_str)
             IN /\ f.exc = "none"
                /\ f.alarm # NoId
                /\ f.out = << >>
                /\ heap'[f.alarm].original_time = Time_from_str(time_str).val
                /\ heap'[f.alarm].day = DayOfWeek_from_str(day_str).val
                /\ before.alarm = NoId
                   => /\ f.alarm = nextId
                      /\ heap'[f.alarm].snooze_count = 0
                /\ before.alarm # NoId
                   => /\ f.alarm = before.alarm
                      /\ heap'[f.alarm].snooze_count = heap[f.alarm].snooze_count
      ]_vars

C7_Witness ==
    /\ op = "add_alarm"
    /\ Len(alarms) = 2
    /\ out = << Msg("set", alarms[2]) >>
    /\ heap[alarms[1]].original_time = heap[alarms[2]].original_time
    /\ heap[alarms[1]].day = heap[alarms[2]].day
    /\ heap[alarms[1]].snooze_count = 2
    /\ FirstMatch(Time(23, 58), "MONDAY") = alarms[1]

\* C8: reset_snooze on any alarm, whatever its snooze_count and
\* snoozed_time, leaves snooze_count 0, snoozed_time absent and the
\* effective time equal to the scheduled time, and changes neither active,
\* scheduled time, day nor any other alarm.
C8_ResetSnoozeClears ==
    [][ \A id \in DOMAIN heap :
          (op' = "reset_snooze" /\ reset_snooze(id))
          => /\ heap'[id].snooze_count = 0
             /\ heap'[id].snoozed_time = None
             /\ current_time(heap'[id]) = heap[id].original_time
             /\ heap'[id].active = heap[id].active
             /\ heap'[id].original_time = heap[id].original_time
             /\ heap'[id].day = heap[id].day
             /\ DOMAIN heap' = DOMAIN heap
             /\ \A other \in DOMAIN heap \ {id} : heap'[other] = heap[other]
             /\ alarms' = alarms
      ]_vars

C8_Witness ==
    /\ op = "reset_snooze"
    /\ DOMAIN heap = {1}
    /\ heap[1].snooze_count = 0
    /\ heap[1].snoozed_time = None
    /\ ~heap[1].active
    /\ fired[1] = 1

\* C9: delete_alarm(id) and snooze_alarm(id) with an id that is not in the
\* registry change neither the registry nor any alarm and raise nothing, and
\* after delete_alarm(id) the id is not in the registry, so a second
\* delete_alarm(id) leaves the state of the first.
C9_UnknownIdIsNoOp ==
    [][ \A id \in IdArgs :
          /\ (op' = "delete_alarm" /\ delete_alarm(id))
             => /\ id \notin { alarms'[i] : i \in 1..Len(alarms') }
                /\ out' = << Msg("deleted", NoId) >>
                /\ id \notin Registered
                   => (alarms' = alarms /\ heap' = heap /\ fired' = fired)
          /\ (op' = "snooze_alarm" /\ SnoozeOf(id) /\ id \notin Registered)
             => /\ alarms' = alarms
                /\ heap' = heap
                /\ fired' = fired
                /\ out' = << >>
      ]_vars

C9_Witness ==
    /\ op = "delete_alarm"
    /\ out = << Msg("deleted", NoId) >>
    /\ nextId = 3
    /\ alarms = << 1, 2 >>
    /\ heap[1].snooze_count = 1

\* C10: every stored alarm's scheduled time and effective time have their
\* hour in 0..23 and their minute in 0..59 (add_alarm rejects the others).
C10_StoredTimesInRange ==
    \A id \in DOMAIN heap :
       /\ ValidFields(heap[id].original_time.hour, heap[id].original_time.minute)
       /\ ValidFields(Effective(id).hour, Effective(id).minute)


\* the step is the write of line 126, with its ALARM line, by the thread t
FireBy(t) == op' = "check_alarms" /\ check_alarms_fire(t)

\* C11: the thread of check_alarms is never between its read of an
\* alarm's active and effective time (line 124) and its write of active
\* (line 126) while the foreground thread is inside a call, between that
\* call's reads and writes.
C11_TickAndCallMutuallyExclusive ==
    \A t \in 1..Len(loops) : ~(loops[t].pc = "fire" /\ fg # Idle)

\* C12: whatever calls of start() were made, at most one thread of
\* check_alarms runs, so that no alarm gets two ALARM lines from two threads
\* that tick in the same minute; the formula is that consequence.
C12_NoAlarmNotifiedTwice ==
    \A id \in DOMAIN fired : fired[id] <= 1

\* C13: once running is false every thread of check_alarms ends, provided
\* it keeps being scheduled: it ends the pass under way, begins no pass
\* after that (so no ALARM line comes from a pass begun after the stop), and
\* a thread that has ended stays ended.
C13_LoopEndsAfterStop ==
    /\ (~running) ~> (\A t \in 1..Len(loops) : loops[t].pc = "done")
    /\ [][ \A t \in 1..Len(loops) :
             /\ (~running /\ loops[t].pc = "loop") => loops'[t].pc \in {"loop", "done"}
             /\ (~running /\ loops[t].pc = "loop") => ~FireBy(t)
             /\ loops[t].pc = "done" => loops'[t].pc = "done"
             /\ ~running => ~running'
         ]_vars

C13_Witness ==
    /\ ~running
    /\ op = "check_alarms_exit"
    /\ \A t \in 1..Len(loops) : loops[t].pc = "done"
    /\ \E id \in DOMAIN heap : fired[id] = 1 /\ ~heap[id].active

\* C14: active never goes back to true: an alarm that is inactive in a
\* state is inactive in the next, whatever the step (snooze, reset_snooze,
\* add, delete, tick, exit), and a snooze leaves active as it was.
C14_ActiveNeverRearms ==
    [][ \A id \in DOMAIN heap \cap DOMAIN heap' :
          /\ ~heap[id].active => ~heap'[id].active
          /\ (op' \in {"snooze_alarm", "snooze_alarm_by_time_day"} /\ SnoozeOf(id))
             => heap'[id].active = heap[id].active
      ]_vars

C14_Witness ==
    /\ op \in {"snooze_alarm", "snooze_alarm_by_time_day"}
    /\ \E id \in Registered :
          /\ out = << Msg("snoozed", id) >>
          /\ ~heap[id].active
          /\ fired[id] = 1
          /\ heap[id].snooze_count = 2

\* C15: whenever the thread of check_alarms sets an alarm's active to
\* false, the alarm's effective time at that moment is the time the pass
\* read from the clock, and its day the day the pass read, also when a
\* foreground snooze runs at the same time.
C15_FiresAtTheTimeOfThePass ==
    [][ \A t \in 1..Len(loops) :
          FireBy(t) =>
            /\ current_time(heap[loops[t].cur]) = loops[t].ct
            /\ heap[loops[t].cur].day = loops[t].cd
      ]_vars

\* C16: once delete_alarm(id) has returned, the alarm is out of the
\* registry for good, and the thread of check_alarms prints no ALARM line
\* for it and does not write its active, also when the delete ran while a
\* pass was part-way through its list.
C16_DeletedAlarmNeverFired ==
    [][ \A t \in 1..Len(loops) : FireBy(t) => InRegistry(loops[t].cur) ]_vars

\* the registry positions whose alarm has this scheduled time and day
Hits(t, d) ==
    { i \in 1..Len(alarms) :
        heap[alarms[i]].original_time = t /\ heap[alarms[i]].day = d }

\* the alarm at the least of these positions, NoId if there is none
FirstHit(t, d) ==
    IF Hits(t, d) = {} THEN NoId
    ELSE alarms[CHOOSE i \in Hits(t, d) : \A j \in Hits(t, d) : i <= j]

\* C17: find_alarm_by_time_day returns the first alarm, in insertion order,
\* whose scheduled time (not its effective time) and day equal the arguments,
\* and none if there is no such alarm: a snoozed alarm is found under its
\* scheduled time and never under another time; snooze_alarm_by_time_day
\* snoozes that first match and touches no other alarm.
C17_FindByScheduledTimeFirstMatch ==
    /\ [](\A a \in LookupArgs :
            Parses(a[1], a[2]) =>
              LET t == Time_from_str(a[1]).val
                  d == DayOfWeek_from_str(a[2]).val
                  r == find_alarm_by_time_day(a[1], a[2]).alarm
              IN /\ r = FirstHit(t, d)
                 /\ r # NoId => (heap[r].original_time = t /\ heap[r].day = d)
                 /\ \A id \in Registered :
                       ( /\ heap[id].snooze_count >= 1
                         /\ heap[id].original_time = t
                         /\ heap[id].day = d )
                       => r # NoId)
    /\ [][ \A a \in LookupArgs :
             ( /\ op' = "snooze_alarm_by_time_day"
               /\ Parses(a[1], a[2])
               /\ \E today \in Today : snooze_alarm_by_time_day(a[1], a[2], today) )
             => LET r == FirstHit(Time_from_str(a[1]).val, DayOfWeek_from_str(a[2]).val)
                IN /\ \A id \in DOMAIN heap \ {r} : heap'[id] = heap[id]
                   /\ (r # NoId /\ heap[r].snooze_count < 3
                         /\ ValidFields(Effective(r).hour, Effective(r).minute))
                      => /\ heap'[r].snooze_count = heap[r].snooze_count + 1
                         /\ out' = << Msg("snoozed", r) >>
                   /\ r = NoId => (heap' = heap /\ out' = << Msg("nofound", NoId) >>)
         ]_vars

C17_Witness ==
    /\ op = "snooze_alarm_by_time_day"
    /\ alarms = << 1, 2 >>
    /\ out = << Msg("snoozed", 1) >>
    /\ heap[1].original_time = Time(5, 0)
    /\ heap[2].original_time = Time(5, 0)
    /\ heap[1].snooze_count = 2
    /\ heap[1].snoozed_time = Some(Time(5, 10))
    /\ heap[2].snooze_count = 0
    /\ find_alarm_by_time_day(<< Num(5), Num(0) >>, "Monday").alarm = 1
    /\ find_alarm_by_time_day(<< Num(5), Num(5) >>, "Monday").alarm = NoId

\* C18: the id (the key of the alarm object), the scheduled time and the
\* day of an alarm are the same after every step as before it; a snooze of
\* 23:58 gives the effective time 00:03 and leaves the day, and a tick on
\* another day than the alarm's neither fires it nor writes its active.
C18_IdTimeDayNeverChange ==
    /\ [][ \A id \in DOMAIN heap \cap DOMAIN heap' :
             /\ heap'[id].original_time = heap[id].original_time
             /\ heap'[id].day = heap[id].day
         ]_vars
    /\ [][ \A id \in Registered :
             ( /\ SnoozeOf(id)
               /\ Effective(id) = Time(23, 58)
               /\ heap[id].snooze_count < 3 )
             => /\ current_time(heap'[id]) = Time(0, 3)
                /\ heap'[id].day = heap[id].day
         ]_vars
    /\ [][ \A ct \in ClockTimeSet, cd \in ClockDays :
             TickAt(ct, cd) =>
               \A id \in Registered :
                  heap[id].day # cd
                  => /\ heap'[id].active = heap[id].active
                     /\ fired'[id] = fired[id]
                     /\ AlarmLines(out', id) = 0
         ]_vars

C18_Witness ==
    /\ op = "check_alarms"
    /\ \E id \in Registered :
          /\ out = << Msg("ALARM", id) >>
          /\ heap[id].original_time = Time(23, 58)
          /\ heap[id].snoozed_time = Some(Time(0, 3))
          /\ heap[id].day = "MONDAY"
          /\ fired[id] = 1
          /\ ~heap[id].active

\* C19: a tick changes nothing but the active flag of the alarms it fires:
\* the registry keeps its members and their order, no snooze_count,
\* snoozed_time, scheduled time or day is written, an alarm's active changes
\* only if it was active with effective time and day equal to the tick's, and
\* an active alarm whose effective time or day differs stays active and
\* unannounced, so an alarm whose minute was skipped is not fired late.
C19_TickOnlyClearsActiveOfFired ==
    [][ \A ct \in ClockTimeSet, cd \in ClockDays :
          TickAt(ct, cd) =>
            /\ alarms' = alarms
            /\ nextId' = nextId
            /\ running' = running
            /\ DOMAIN heap' = DOMAIN heap
            /\ \A id \in DOMAIN heap :
                  /\ heap'[id] = [heap[id] EXCEPT !.active = heap'[id].active]
                  /\ heap'[id].active # heap[id].active
                     => /\ heap[id].active
                        /\ Effective(id) = ct
                        /\ heap[id].day = cd
                        /\ fired'[id] = fired[id] + 1
                  /\ (heap[id].active /\ (Effective(id) # ct \/ heap[id].day # cd))
                     => /\ heap'[id].active
                        /\ fired'[id] = fired[id]
                        /\ AlarmLines(out', id) = 0
      ]_vars

C19_Witness ==
    /\ op = "check_alarms"
    /\ alarms = << 1, 2 >>
    /\ out = << Msg("ALARM", 2) >>
    /\ heap[1].original_time = Time(5, 0)
    /\ heap[1].snooze_count = 0
    /\ heap[1].active
    /\ fired[1] = 0
    /\ heap[2].original_time = Time(23, 58)
    /\ ~heap[2].active

\* C20: in every state between calls each alarm has a snoozed_time exactly
\* if its snooze_count is at least 1, and no call changes one of the two
\* without the other.
C20_SnoozedTimeIffCounted ==
    /\ [](\A id \in DOMAIN heap :
            heap[id].snoozed_time # None <=> heap[id].snooze_count >= 1)
    /\ [][ \A id \in DOMAIN heap \cap DOMAIN heap' :
             heap'[id].snoozed_time # heap[id].snoozed_time
             <=> heap'[id].snooze_count # heap[id].snooze_count
         ]_vars

C20_Witness ==
    /\ op = "reset_snooze"
    /\ alarms = << 1, 2 >>
    /\ heap[1].snooze_count = 0
    /\ heap[1].snoozed_time = None
    /\ fired[1] = 1
    /\ heap[2].snooze_count = 2
    /\ heap[2].snoozed_time = Some(Time(5, 10))

====
